---- MODULE Spec2Model ----
(***************************************************************************)
(* Model of MCMC/experiment.py: the versioned output directory, the        *)
(* construction of FlowMCExperimentRunner, the main() pipeline and the     *)
(* diagnostics computed from the sampler's resources.                      *)
(*                                                                         *)
(* File names are sequences of one-character strings.  Floats are held in  *)
(* thousandths (0.1 is 100).                                                *)
(***************************************************************************)
EXTENDS Integers, Sequences, FiniteSets, TLC

(* ------------------------------ bounds --------------------------------- *)
\* longest digit run in a pre-existing entry name
MaxDigits == 2
\* number of pre-existing entries of the base directory (versioner alone)
MaxEntries == 2
\* number of pre-existing entries of the base directory (interleaved runners)
MaxPreEntries == 1
\* number of processes constructing a runner on the same base directory
NProcs == 2
\* production draws the sampler may return (chains.shape[1])
MaxSteps == 15
\* extent of the acceptance arrays along axis 0 and axis 1
MaxAxis0 == 2
MaxAxis1 == 2

(* --------------------------- program constants -------------------------- *)
SUPPORTED_EXPERIMENTS == {"gaussian", "dualmoon", "rosenbrock"}
DefaultPrefix == <<"r","e","s","u","l","t","s">>
n_step_group == 7

(* ------------------------------ strings --------------------------------- *)
DigitChars == <<"0","1","2","3","4","5","6","7","8","9">>

IsDigit(c) == \E i \in 1..10 : DigitChars[i] = c

DigitVal(c) == (CHOOSE i \in 1..10 : DigitChars[i] = c) - 1

\* int(s) for a string of decimal digits
RECURSIVE IntOf(_)
IntOf(s) == IF Len(s) = 0 THEN 0
            ELSE IntOf(SubSeq(s, 1, Len(s) - 1)) * 10 + DigitVal(s[Len(s)])

\* f"{n}" for n >= 0
RECURSIVE StrOf(_)
StrOf(n) == IF n < 10 THEN <<DigitChars[n + 1]>>
            ELSE StrOf(n \div 10) \o <<DigitChars[(n % 10) + 1]>>

StartsWith(s, p) == Len(s) >= Len(p) /\ SubSeq(s, 1, Len(p)) = p

\* the longest run of digits at the start of s: what (\d+) captures, <<>> if none
RECURSIVE DigitRun(_)
DigitRun(s) == IF Len(s) = 0 \/ ~IsDigit(s[1]) THEN <<>>
               ELSE <<s[1]>> \o DigitRun(SubSeq(s, 2, Len(s)))

\* re.match(rf"{prefix}_(\d+)", name): group(1), or <<>> when there is no match.
\* re.match anchors at the start of name only.
ReMatch(prefix, name) ==
    LET pat == prefix \o <<"_">>
    IN  IF StartsWith(name, pat)
        THEN DigitRun(SubSeq(name, Len(pat) + 1, Len(name)))
        ELSE <<>>

SetMax(S) == CHOOSE x \in S : \A y \in S : y <= x

(* ------------------------ the output directory -------------------------- *)
\* numbers = [int(m.group(1)) for m in matches if m], over the directories only
Numbers(ents, prefix) ==
    { IntOf(ReMatch(prefix, e.name)) :
        e \in { d \in ents : d.kind = "dir" /\ ReMatch(prefix, d.name) # <<>> } }

\* max(numbers, default=0) + 1
NextNumber(ents, prefix) == SetMax(Numbers(ents, prefix) \cup {0}) + 1

\* the last path component get_next_available_outdir returns
NextAvailableOutdir(ents, prefix) ==
    prefix \o <<"_">> \o StrOf(NextNumber(ents, prefix))

EntryNames(ents) == { e.name : e \in ents }

(* --------------------------- input universes ---------------------------- *)
Prefixes == { DefaultPrefix, <<"o","l","d","_">> \o DefaultPrefix }
NameDigits == {"0", "1", "3"}
DigitStrings == UNION { [1..n -> NameDigits] : n \in 0..MaxDigits }
Trails == { <<>>, <<"x">> }
Names == { p \o <<"_">> \o d \o t : p \in Prefixes, d \in DigitStrings, t \in Trails }
Entries == [name : Names, kind : {"dir", "file"}]

\* directory contents: no two entries share a name
IsListing(S) == \A a \in S, b \in S : a.name = b.name => a = b

RECURSIVE Listings(_)
Listings(n) == IF n = 0 THEN { {} }
               ELSE LET L == Listings(n - 1)
                    IN  L \cup { l \cup {e} : l \in L, e \in Entries }

\* base directory contents used when the whole pipeline runs
SampleListings ==
    { {},
      { [name |-> DefaultPrefix \o <<"_", "1">>, kind |-> "dir"] },
      { [name |-> DefaultPrefix \o <<"_", "1">>, kind |-> "file"] },
      { [name |-> DefaultPrefix \o <<"_", "1">>, kind |-> "dir"],
        [name |-> DefaultPrefix \o <<"_", "3">>, kind |-> "dir"] } }

\* pre-existing entries when several runners are constructed on one base
PreNames == { DefaultPrefix \o <<"_">> \o d \o t :
                d \in { <<>>, <<"1">>, <<"2">>, <<"0", "1">> }, t \in Trails }
PreEntries == [name : PreNames, kind : {"dir", "file"}]

RECURSIVE PreListings(_)
PreListings(n) == IF n = 0 THEN { {} }
                  ELSE LET L == PreListings(n - 1)
                       IN  L \cup { l \cup {e} : l \in L, e \in PreEntries }

(* ------------------------------ processes ------------------------------- *)
Procs == 1..NProcs

ExperimentTypes == SUPPORTED_EXPERIMENTS \cup {"banana"}

\* the parser's defaults (floats in thousandths)
DefaultArgs ==
    [ experiment_type |-> "gaussian", n_dims |-> 2, outdir |-> <<>>,
      n_local_steps |-> 20, n_global_steps |-> 50, n_training_loops |-> 20,
      mala_step_size |-> 100, n_production_loops |-> 20, n_epochs |-> 5,
      n_chains |-> 20, rq_spline_hidden_units |-> 32, rq_spline_n_bins |-> 8,
      rq_spline_n_layers |-> 4, learning_rate |-> 1, batch_size |-> 10000,
      n_max_examples |-> 10000, show_initial_positions |-> FALSE ]

\* arguments of a whole run: the hyperparameters stay at their defaults
MainArgs ==
    { [ DefaultArgs EXCEPT !.experiment_type = t, !.n_dims = d, !.n_chains = c ] :
        t \in ExperimentTypes, d \in 0..2, c \in 1..2 }

\* arguments of a construction alone
InitArgs == { [ DefaultArgs EXCEPT !.experiment_type = t ] : t \in {"gaussian", "banana"} }

\* hyperparameters: for each of them the default or the next value
Pick(v, b) == IF b THEN v + 1 ELSE v

HyperArgs ==
    { [ DefaultArgs EXCEPT
          !.n_local_steps = Pick(@, a[1]), !.n_global_steps = Pick(@, a[2]),
          !.n_training_loops = Pick(@, a[3]), !.mala_step_size = Pick(@, a[4]),
          !.n_production_loops = Pick(@, a[5]), !.n_epochs = Pick(@, a[6]),
          !.n_chains = Pick(@, a[7]), !.rq_spline_hidden_units = Pick(@, a[8]),
          !.rq_spline_n_bins = Pick(@, a[9]), !.rq_spline_n_layers = Pick(@, a[10]),
          !.learning_rate = Pick(@, a[11]), !.batch_size = Pick(@, a[12]),
          !.n_max_examples = Pick(@, a[13]) ] :
        a \in [ 1..13 -> BOOLEAN ] }

\* acceptance arrays: axis 0 by axis 1, entries 0 (rejected) or 1 (accepted)
AccArraysOf(d0, d1) == [ 1..d0 -> [ 1..d1 -> {0, 1} ] ]
AccShapes == (1..MaxAxis0) \X (1..MaxAxis1)

\* the acceptance arrays a whole run is followed with
SampleAccs == { << <<1, 0>> >>, << <<1>>, <<0>> >> }

VARIABLES
    baseExists,   \* os.path.exists(base_dir)
    entries,      \* the entries of base_dir: [name, kind]
    ret,          \* what a lone call of get_next_available_outdir returned
    pc,           \* per process: the statement it is about to execute
    params,       \* per process: self.params
    target_fn,    \* per process: self.target_fn
    sampler,      \* per process: self.sampler ([bundle, resources]) once sampled
    diag,         \* per process: the values the diagnostics computed
    log,          \* per process: the calls made and the exception raised
    unique_outdir,\* per process: the local unique_outdir of __init__
    artifacts     \* per process: the files written into its output directory

vars == << baseExists, entries, ret, pc, params, target_fn, sampler, diag, log,
           unique_outdir, artifacts >>

(* ----------------------------- main's order ----------------------------- *)
MainSequence == << "run_experiment", "plot_diagnostics", "print_data", "plot_corner",
                   "plot_loss_curve", "plot_rhat_diagnostics", "compute_rhat" >>

StepIndex(step) == CHOOSE i \in 1..Len(MainSequence) : MainSequence[i] = step

\* where main goes when the call of step returns
AfterReturn(step) == IF StepIndex(step) = Len(MainSequence) THEN "done"
                     ELSE MainSequence[StepIndex(step) + 1]

\* the same with the calls of main wrapped one by one in try/except
AfterRaise_continue(step) ==
    IF step \in { MainSequence[i] : i \in 1..Len(MainSequence) }
    THEN AfterReturn(step) ELSE "crashed"

\* the same with the failed call tried again
AfterRaise_retry(step) == IF step = "run_experiment" THEN step ELSE "crashed"

\* where the process goes when step raises: neither __init__ nor main catches
\* anything, the exception leaves main and the process ends
AfterRaise(step) == "crashed"

EmptyLog == [ executed |-> <<>>, sampler_calls |-> 0, rhat_calls |-> {}, raised |-> <<>> ]
EmptyDiag == [ mean_local_accs |-> <<>>, mean_global_accs |-> <<>>,
               rhat_s |-> <<>>, rhat_values |-> <<>> ]

Called(p, step) == [ log[p] EXCEPT !.executed = Append(@, step) ]

\* step raises err in process p, whose log is lg by then
Raise(p, step, err, lg) ==
    /\ pc' = [ pc EXCEPT ![p] = AfterRaise(step) ]
    /\ log' = [ log EXCEPT ![p] = [ lg EXCEPT !.raised = @ \o << [step |-> step, error |-> err] >> ] ]

Return(p, step, lg) ==
    /\ pc' = [ pc EXCEPT ![p] = AfterReturn(step) ]
    /\ log' = [ log EXCEPT ![p] = lg ]

(* ------------------------- FlowMCExperimentRunner ----------------------- *)
\* __init__(args): self.params = vars(args)
Start(p, Args) ==
    /\ pc[p] = "init"
    /\ \E args \in Args : params' = [ params EXCEPT ![p] = args ]
    /\ pc' = [ pc EXCEPT ![p] = "check_base" ]
    /\ UNCHANGED << baseExists, entries, ret, target_fn, sampler, diag, log,
                    unique_outdir, artifacts >>

\* get_next_available_outdir: if not os.path.exists(base_dir)
CheckBase(p) ==
    /\ pc[p] = "check_base"
    /\ pc' = [ pc EXCEPT ![p] = IF baseExists THEN "listdir" ELSE "make_base" ]
    /\ UNCHANGED << baseExists, entries, ret, params, target_fn, sampler, diag, log,
                    unique_outdir, artifacts >>

\* get_next_available_outdir: os.makedirs(base_dir)
MakeBase(p) ==
    /\ pc[p] = "make_base"
    /\ IF baseExists
       THEN /\ Raise(p, "__init__", "FileExistsError", log[p])
            /\ UNCHANGED baseExists
       ELSE /\ baseExists' = TRUE
            /\ pc' = [ pc EXCEPT ![p] = "listdir" ]
            /\ UNCHANGED log
    /\ UNCHANGED << entries, ret, params, target_fn, sampler, diag, unique_outdir, artifacts >>

\* get_next_available_outdir: os.listdir and the rest, with the default prefix
ListDir(p) ==
    /\ pc[p] = "listdir"
    /\ unique_outdir' = [ unique_outdir EXCEPT ![p] = NextAvailableOutdir(entries, DefaultPrefix) ]
    /\ pc' = [ pc EXCEPT ![p] = "makedirs" ]
    /\ UNCHANGED << baseExists, entries, ret, params, target_fn, sampler, diag, log, artifacts >>

\* os.makedirs(name, exist_ok=True): only a file of that name is in the way
MakedirsOk_exist_ok(ents, name) == ~ \E e \in ents : e.name = name /\ e.kind = "file"

\* os.makedirs(name) creates the directory unless an entry of that name exists
MakedirsOk(ents, name) == name \notin EntryNames(ents)

\* __init__: os.makedirs(unique_outdir); self.params["outdir"] = unique_outdir
MakeDirs(p) ==
    /\ pc[p] = "makedirs"
    /\ IF MakedirsOk(entries, unique_outdir[p])
       THEN /\ entries' = entries \cup { [name |-> unique_outdir[p], kind |-> "dir"] }
            /\ params' = [ params EXCEPT ![p].outdir = unique_outdir[p] ]
            /\ pc' = [ pc EXCEPT ![p] = "validate" ]
            /\ UNCHANGED log
       ELSE /\ Raise(p, "__init__", "FileExistsError", log[p])
            /\ UNCHANGED << entries, params >>
    /\ UNCHANGED << baseExists, ret, target_fn, sampler, diag, unique_outdir, artifacts >>

TargetOf(t) == CASE t = "gaussian" -> "target_normal"
                 [] t = "dualmoon" -> "target_dual_moon"
                 [] t = "rosenbrock" -> "target_rosenbrock"

\* __init__: the check of the experiment type and the choice of the target
Validate(p) ==
    /\ pc[p] = "validate"
    /\ IF params[p].experiment_type \notin SUPPORTED_EXPERIMENTS
       THEN /\ Raise(p, "__init__", "ValueError", log[p])
            /\ UNCHANGED target_fn
       ELSE /\ target_fn' = [ target_fn EXCEPT ![p] = TargetOf(params[p].experiment_type) ]
            /\ pc' = [ pc EXCEPT ![p] = "run_experiment" ]
            /\ UNCHANGED log
    /\ UNCHANGED << baseExists, entries, ret, params, sampler, diag, unique_outdir, artifacts >>

\* a Python int used where a float is expected, in thousandths
FloatOf(n) == n * 1000

\* the arguments RQSpline_MALA_Bundle is called with
BundleOf(prm, fn) ==
    [ n_chains |-> prm.n_chains, n_dims |-> prm.n_dims, logpdf |-> fn,
      n_local_steps |-> prm.n_local_steps, n_global_steps |-> prm.n_global_steps,
      n_training_loops |-> prm.n_training_loops,
      n_production_loops |-> prm.n_production_loops, n_epochs |-> prm.n_epochs,
      mala_step_size |-> FloatOf(prm.n_epochs),
      rq_spline_hidden_units |-> << prm.rq_spline_hidden_units, prm.rq_spline_hidden_units >>,
      rq_spline_n_bins |-> prm.rq_spline_n_bins,
      rq_spline_n_layers |-> prm.rq_spline_n_layers,
      learning_rate |-> prm.learning_rate, batch_size |-> prm.batch_size,
      n_max_examples |-> prm.n_max_examples, verbose |-> FALSE ]

\* what sampler.resources holds after a successful sample(): positions_production
\* is (n_chains, n_steps, n_dims); the acceptance arrays are two-dimensional
SamplerResults(prm) ==
    { [ n_chains |-> prm.n_chains, n_steps |-> n, n_dims |-> prm.n_dims,
        local_accs |-> a[1], global_accs |-> a[2] ] :
        n \in 0..MaxSteps,
        a \in { x \in SampleAccs \X SampleAccs : Len(x[1]) = Len(x[2]) } }

\* run_experiment: the bundle, the Sampler, sampler.sample
RunExperiment(p) ==
    /\ pc[p] = "run_experiment"
    /\ LET lg == [ Called(p, "run_experiment") EXCEPT !.sampler_calls = @ + 1 ]
           b  == BundleOf(params[p], target_fn[p])
       IN  \/ \* RQSpline_MALA_Bundle or Sampler raises: self.sampler is not assigned
              /\ Raise(p, "run_experiment", "SamplerError", lg)
              /\ UNCHANGED sampler
           \/ \* sampler.sample raises: self.sampler is assigned, without production data
              /\ Raise(p, "run_experiment", "SamplerError", lg)
              /\ sampler' = [ sampler EXCEPT ![p] = << [ bundle |-> b, resources |-> <<>> ] >> ]
           \/ \E res \in SamplerResults(params[p]) :
                /\ sampler' = [ sampler EXCEPT ![p] = << [ bundle |-> b, resources |-> <<res>> ] >> ]
                /\ Return(p, "run_experiment", lg)
    /\ UNCHANGED << baseExists, entries, ret, params, target_fn, diag, unique_outdir, artifacts >>

HasResources(p) == sampler[p] # <<>> /\ sampler[p][1].resources # <<>>
Resources(p) == sampler[p][1].resources[1]

(* ------------------------------ diagnostics ----------------------------- *)
RECURSIVE ColSum(_, _, _)
ColSum(a, j, n) == IF n = 0 THEN 0 ELSE a[n][j] + ColSum(a, j, n - 1)

RECURSIVE RowSum(_, _)
RowSum(r, n) == IF n = 0 THEN 0 ELSE r[n] + RowSum(r, n - 1)

\* np.mean(a, axis=1): one value per index of axis 0
MeanAxis1(a) == [ i \in 1..Len(a) |-> [ num |-> RowSum(a[i], Len(a[i])), den |-> Len(a[i]) ] ]

\* np.mean(a, axis=0): one value per index of axis 1, the fraction num/den
MeanAxis0(a) == [ j \in 1..Len(a[1]) |-> [ num |-> ColSum(a, j, Len(a)), den |-> Len(a) ] ]

\* a step that writes one file with plt.savefig, which may raise
SaveFig(p, step, file, lg) ==
    \/ /\ artifacts' = [ artifacts EXCEPT ![p] = @ \cup {file} ]
       /\ Return(p, step, lg)
    \/ /\ Raise(p, step, "OSError", lg)
       /\ UNCHANGED artifacts

NoResources(p, step) ==
    /\ Raise(p, step, "AttributeError", Called(p, step))
    /\ UNCHANGED << artifacts, diag >>

\* plot_diagnostics
PlotDiagnostics(p) ==
    /\ pc[p] = "plot_diagnostics"
    /\ IF ~HasResources(p) THEN NoResources(p, "plot_diagnostics")
       ELSE \/ /\ diag' = [ diag EXCEPT ![p].mean_local_accs = << MeanAxis0(Resources(p).local_accs) >>,
                                        ![p].mean_global_accs = << MeanAxis0(Resources(p).global_accs) >> ]
               /\ artifacts' = [ artifacts EXCEPT ![p] = @ \cup {"acceptance_and_logprob.pdf"} ]
               /\ Return(p, "plot_diagnostics", Called(p, "plot_diagnostics"))
            \/ /\ Raise(p, "plot_diagnostics", "OSError", Called(p, "plot_diagnostics"))
               /\ UNCHANGED << artifacts, diag >>
    /\ UNCHANGED << baseExists, entries, ret, params, target_fn, sampler, unique_outdir >>

\* print_data
PrintData(p) ==
    /\ pc[p] = "print_data"
    /\ IF ~HasResources(p) THEN NoResources(p, "print_data")
       ELSE /\ Return(p, "print_data", Called(p, "print_data"))
            /\ UNCHANGED << artifacts, diag >>
    /\ UNCHANGED << baseExists, entries, ret, params, target_fn, sampler, unique_outdir >>

\* plot_corner: two figures, saved one after the other
PlotCorner(p) ==
    /\ pc[p] = "plot_corner"
    /\ IF ~HasResources(p) THEN NoResources(p, "plot_corner")
       ELSE /\ \/ /\ Raise(p, "plot_corner", "OSError", Called(p, "plot_corner"))
                  /\ UNCHANGED artifacts
               \/ /\ Raise(p, "plot_corner", "OSError", Called(p, "plot_corner"))
                  /\ artifacts' = [ artifacts EXCEPT ![p] = @ \cup {"chains_corner_plot.pdf"} ]
               \/ /\ Return(p, "plot_corner", Called(p, "plot_corner"))
                  /\ artifacts' = [ artifacts EXCEPT ![p] =
                                      @ \cup {"chains_corner_plot.pdf", "flow_samples_corner_plot.pdf"} ]
            /\ UNCHANGED diag
    /\ UNCHANGED << baseExists, entries, ret, params, target_fn, sampler, unique_outdir >>

\* plot_loss_curve
PlotLossCurve(p) ==
    /\ pc[p] = "plot_loss_curve"
    /\ IF ~HasResources(p) THEN NoResources(p, "plot_loss_curve")
       ELSE /\ SaveFig(p, "plot_loss_curve", "training_loss_curve.pdf", Called(p, "plot_loss_curve"))
            /\ UNCHANGED diag
    /\ UNCHANGED << baseExists, entries, ret, params, target_fn, sampler, unique_outdir >>

Min(a, b) == IF a < b THEN a ELSE b

\* chains[:, :len, j] of a (n_chains, n_steps, n_dims) array: what az.rhat is given
Slice(res, len, j) == [ chains |-> res.n_chains, draws |-> Min(len, res.n_steps), dim |-> j ]

\* n_group_step, rounded up instead of down
GroupStep_ceil(n_steps) == (n_steps + n_step_group - 1) \div n_step_group

\* n_group_step = n_steps // n_step_group
GroupStep(n_steps) == n_steps \div n_step_group

\* (i + 1) * n_group_step
WindowLen(i, g) == (i + 1) * g

\* the slices of the nested comprehension: row j, column i
RhatSlices(res) ==
    [ j \in 1..res.n_dims |->
        [ i \in 1..n_step_group |->
            Slice(res, WindowLen(i - 1, GroupStep(res.n_steps)), j - 1) ] ]

\* the slices compute_rhat hands to az.rhat: all the draws of each dimension
FullSlices(res) == [ j \in 1..res.n_dims |-> Slice(res, res.n_steps, j - 1) ]

\* np.array(rows).shape
NpShape(rows) == IF Len(rows) = 0 THEN <<0>> ELSE << Len(rows), Len(rows[1]) >>

\* az.rhat is defined for at least two chains with draws; what it does with
\* anything else (a value such as nan, or an exception) is the library's choice
Degenerate(sl) == sl.chains < 2 \/ sl.draws = 0

AllSlices(rows) == { rows[j][i] : j \in 1..Len(rows), i \in 1..n_step_group }

\* plot_rhat_diagnostics
PlotRhatDiagnostics(p) ==
    /\ pc[p] = "plot_rhat_diagnostics"
    /\ IF ~HasResources(p) THEN NoResources(p, "plot_rhat_diagnostics")
       ELSE LET rows == RhatSlices(Resources(p))
                lg   == Called(p, "plot_rhat_diagnostics")
            IN  \/ \* az.rhat raises on the first slice
                   /\ Len(rows) > 0 /\ Degenerate(rows[1][1])
                   /\ Raise(p, "plot_rhat_diagnostics", "RhatError",
                            [ lg EXCEPT !.rhat_calls = @ \cup { rows[1][1] } ])
                   /\ UNCHANGED << artifacts, diag >>
                \/ \* az.rhat returns for every slice
                   /\ diag' = [ diag EXCEPT ![p].rhat_s = << rows >> ]
                   /\ SaveFig(p, "plot_rhat_diagnostics", "rhat_diagnostics.pdf",
                              [ lg EXCEPT !.rhat_calls = @ \cup AllSlices(rows) ])
    /\ UNCHANGED << baseExists, entries, ret, params, target_fn, sampler, unique_outdir >>

\* compute_rhat
ComputeRhat(p) ==
    /\ pc[p] = "compute_rhat"
    /\ IF ~HasResources(p) THEN NoResources(p, "compute_rhat")
       ELSE LET full == FullSlices(Resources(p))
                lg   == Called(p, "compute_rhat")
                all  == { full[j] : j \in 1..Len(full) }
            IN  \/ \* az.rhat raises
                   /\ \E sl \in all : Degenerate(sl)
                   /\ Raise(p, "compute_rhat", "RhatError", [ lg EXCEPT !.rhat_calls = @ \cup all ])
                   /\ UNCHANGED << artifacts, diag >>
                \/ \* az.rhat returns
                   /\ diag' = [ diag EXCEPT ![p].rhat_values = << full >> ]
                   /\ SaveFig(p, "compute_rhat", "rhat_table.pdf",
                              [ lg EXCEPT !.rhat_calls = @ \cup all ])
    /\ UNCHANGED << baseExists, entries, ret, params, target_fn, sampler, unique_outdir >>

\* a lone call get_next_available_outdir(base_dir, prefix)
GetNextAvailableOutdir(prefix) ==
    /\ ret = <<>>
    /\ baseExists' = TRUE
    /\ ret' = << [ prefix |-> prefix, name |-> NextAvailableOutdir(entries, prefix) ] >>
    /\ UNCHANGED << entries, pc, params, target_fn, sampler, diag, log, unique_outdir, artifacts >>

(* ---------------------------- specifications ---------------------------- *)
InitProcs(pcs) ==
    /\ ret = <<>>
    /\ pc = pcs
    /\ params = [ p \in Procs |-> DefaultArgs ]
    /\ target_fn = [ p \in Procs |-> "" ]
    /\ sampler = [ p \in Procs |-> <<>> ]
    /\ diag = [ p \in Procs |-> EmptyDiag ]
    /\ log = [ p \in Procs |-> EmptyLog ]
    /\ unique_outdir = [ p \in Procs |-> <<>> ]
    /\ artifacts = [ p \in Procs |-> {} ]

InitFs(listings) ==
    \/ baseExists = FALSE /\ entries = {}
    \/ baseExists = TRUE /\ entries \in { l \in listings : IsListing(l) }

\* one process runs main() to its end
Init == InitFs(SampleListings) /\ InitProcs([ p \in Procs |-> IF p = 1 THEN "init" ELSE "absent" ])

Construct(p, Args) ==
    \/ Start(p, Args)
    \/ CheckBase(p)
    \/ MakeBase(p)
    \/ ListDir(p)
    \/ MakeDirs(p)
    \/ Validate(p)

Next ==
    \E p \in Procs :
        \/ Construct(p, MainArgs)
        \/ RunExperiment(p)
        \/ PlotDiagnostics(p)
        \/ PrintData(p)
        \/ PlotCorner(p)
        \/ PlotLossCurve(p)
        \/ PlotRhatDiagnostics(p)
        \/ ComputeRhat(p)

Spec == Init /\ [][Next]_vars

\* several processes construct a runner on the same base directory
InitInit == InitFs(PreListings(MaxPreEntries)) /\ InitProcs([ p \in Procs |-> "init" ])
NextInit == \E p \in Procs : Construct(p, InitArgs)
SpecInit == InitInit /\ [][NextInit]_vars

\* get_next_available_outdir alone, on any base directory and prefix
InitDir == InitFs(Listings(MaxEntries)) /\ InitProcs([ p \in Procs |-> "absent" ])
NextDir == \E prefix \in Prefixes : GetNextAvailableOutdir(prefix)
SpecDir == InitDir /\ [][NextDir]_vars

\* a runner constructed with args on an empty base directory, process 1
Constructed(args, at, smp, lg) ==
    LET first == NextAvailableOutdir({}, DefaultPrefix)
    IN  /\ baseExists = TRUE
        /\ entries = { [name |-> first, kind |-> "dir"] }
        /\ ret = <<>>
        /\ pc = [ p \in Procs |-> IF p = 1 THEN at ELSE "absent" ]
        /\ params = [ p \in Procs |-> IF p = 1 THEN [ args EXCEPT !.outdir = first ] ELSE DefaultArgs ]
        /\ target_fn = [ p \in Procs |-> IF p = 1 THEN TargetOf(args.experiment_type) ELSE "" ]
        /\ sampler = [ p \in Procs |-> IF p = 1 THEN smp ELSE <<>> ]
        /\ diag = [ p \in Procs |-> EmptyDiag ]
        /\ log = [ p \in Procs |-> IF p = 1 THEN lg ELSE EmptyLog ]
        /\ unique_outdir = [ p \in Procs |-> IF p = 1 THEN first ELSE <<>> ]
        /\ artifacts = [ p \in Procs |-> {} ]

\* run_experiment on a constructed runner, for any hyperparameters
InitBundle == \E args \in HyperArgs : Constructed(args, "run_experiment", <<>>, EmptyLog)
NextBundle == RunExperiment(1)
SpecBundle == InitBundle /\ [][NextBundle]_vars

\* plot_diagnostics after a successful run, for any acceptance arrays
InitAcc ==
    \E sh \in AccShapes :
      \E a \in AccArraysOf(sh[1], sh[2]), g \in AccArraysOf(sh[1], sh[2]) :
        Constructed(DefaultArgs, "plot_diagnostics",
                    << [ bundle |-> BundleOf(DefaultArgs, TargetOf(DefaultArgs.experiment_type)),
                         resources |-> << [ n_chains |-> DefaultArgs.n_chains, n_steps |-> MaxSteps,
                                            n_dims |-> DefaultArgs.n_dims,
                                            local_accs |-> a, global_accs |-> g ] >> ] >>,
                    [ EmptyLog EXCEPT !.executed = << "run_experiment" >>, !.sampler_calls = 1 ])
NextAcc == PlotDiagnostics(1)
SpecAcc == InitAcc /\ [][NextAcc]_vars

(* ================================ claims ================================ *)
Terminated(p) == pc[p] \in {"done", "crashed"}
Executed(p) == { log[p].executed[i] : i \in 1..Len(log[p].executed) }
RaisedIn(p, step) == \E i \in 1..Len(log[p].raised) : log[p].raised[i].step = step

(* ---- C1 ---- *)
\* the numbers N of the directories named exactly <prefix>_<N>
ExactNumbers(ents, prefix) ==
    { IntOf(ReMatch(prefix, e.name)) :
        e \in { d \in ents : /\ d.kind = "dir"
                             /\ ReMatch(prefix, d.name) # <<>>
                             /\ d.name = prefix \o <<"_">> \o ReMatch(prefix, d.name) } }

\* C1: get_next_available_outdir(base, prefix) returns <prefix>_<m+1>, m the largest
\* N over the subdirectories of base named exactly <prefix>_<N> (0 when there is
\* none), and no entry of base has the returned name.
C1_NextAvailableDir ==
    ret # <<>> =>
        /\ ret[1].name = ret[1].prefix \o <<"_">>
                           \o StrOf(SetMax(ExactNumbers(entries, ret[1].prefix) \cup {0}) + 1)
        /\ ret[1].name \notin EntryNames(entries)

(* ---- C2 ---- *)
\* C2: with an unsupported experiment type or a dimensionality below 1 the
\* construction fails, and the sampler is never run.
C2_InvalidConfigFails ==
    \A p \in Procs :
        ( /\ pc[p] \notin {"absent", "init"}
          /\ \/ params[p].experiment_type \notin SUPPORTED_EXPERIMENTS
             \/ params[p].n_dims < 1 )
        => /\ pc[p] \in {"check_base", "make_base", "listdir", "makedirs", "validate", "crashed"}
           /\ pc[p] = "crashed" => RaisedIn(p, "__init__")
           /\ log[p].sampler_calls = 0

(* ---- C3 ---- *)
RenderSteps == { "plot_diagnostics", "plot_corner", "plot_loss_curve",
                 "plot_rhat_diagnostics", "compute_rhat" }

\* the files a step of main has written when it returns
StepArtifacts(step) ==
    CASE step = "plot_diagnostics" -> {"acceptance_and_logprob.pdf"}
      [] step = "plot_corner" -> {"chains_corner_plot.pdf", "flow_samples_corner_plot.pdf"}
      [] step = "plot_loss_curve" -> {"training_loss_curve.pdf"}
      [] step = "plot_rhat_diagnostics" -> {"rhat_diagnostics.pdf"}
      [] step = "compute_rhat" -> {"rhat_table.pdf"}
      [] OTHER -> {}

ArtifactsBefore(step) == UNION { StepArtifacts(MainSequence[i]) : i \in 1..(StepIndex(step) - 1) }

C4_SamplerFailureIsFatal ==
    \A p \in Procs :
        RaisedIn(p, "run_experiment") =>
            /\ pc[p] = "crashed"
            /\ log[p].sampler_calls = 1
            /\ log[p].executed = << "run_experiment" >>
            /\ artifacts[p] = {}
            /\ diag[p] = EmptyDiag

C4_Witness == RaisedIn(1, "run_experiment") /\ pc[1] = "crashed" /\ sampler[1] # <<>>

(* ---- C5 ---- *)
\* C5: with fewer than two chains the R-hat computation of plot_rhat_diagnostics
\* raises instead of returning values, and the run goes on to compute_rhat.
C5_RhatNeedsTwoChains ==
    \A p \in Procs :
        ( /\ Terminated(p) /\ HasResources(p)
          /\ Resources(p).n_chains < 2 /\ Resources(p).n_dims >= 1
          /\ "plot_rhat_diagnostics" \in Executed(p) )
        => /\ RaisedIn(p, "plot_rhat_diagnostics")
           /\ diag[p].rhat_s = <<>>
           /\ "compute_rhat" \in Executed(p)

(* ---- C6 ---- *)
RhatTraced(p) == HasResources(p) /\ diag[p].rhat_s # <<>>
RhatMatrix(p) == diag[p].rhat_s[1]

\* C6 as stated: for n >= 7 draws the matrix is (dimensions, 7), window w is over the
\* first w * floor(n / 7) draws and the last window is over all n draws.
C6_LastWindowIsFullData ==
    \A p \in Procs :
        (RhatTraced(p) /\ Resources(p).n_steps >= n_step_group /\ Resources(p).n_dims >= 1) =>
            /\ NpShape(RhatMatrix(p)) = << Resources(p).n_dims, n_step_group >>
            /\ \A j \in 1..Resources(p).n_dims :
                 RhatMatrix(p)[j][n_step_group] = Slice(Resources(p), Resources(p).n_steps, j - 1)

\* C6 amended: for n >= 7 draws the matrix is (dimensions, 7), window w of dimension
\* j is over the first w * q draws of that dimension, q the integer with
\* 7q <= n < 7(q + 1); the last window leaves out the last n mod 7 draws, so it is
\* the full-data slice exactly when 7 divides n.
C6_WindowsGrowByFloor ==
    \A p \in Procs :
        (RhatTraced(p) /\ Resources(p).n_steps >= n_step_group /\ Resources(p).n_dims >= 1) =>
            LET n == Resources(p).n_steps
                m == RhatMatrix(p)
            IN  /\ NpShape(m) = << Resources(p).n_dims, n_step_group >>
                /\ \E q \in 1..n :
                     /\ n_step_group * q <= n /\ n < n_step_group * (q + 1)
                     /\ \A j \in 1..Resources(p).n_dims : \A w \in 1..n_step_group :
                          /\ m[j][w].draws = w * q
                          /\ m[j][w].dim = j - 1
                          /\ m[j][w].chains = Resources(p).n_chains
                /\ \A j \in 1..Resources(p).n_dims :
                     /\ m[j][n_step_group].draws = n - (n % n_step_group)
                     /\ (m[j][n_step_group] = Slice(Resources(p), n, j - 1))
                          <=> (n % n_step_group = 0)

C6_Witness ==
    /\ RhatTraced(1) /\ Resources(1).n_dims = 2
    /\ Resources(1).n_steps > n_step_group /\ Resources(1).n_steps % n_step_group # 0
    /\ "rhat_diagnostics.pdf" \in artifacts[1]

(* ---- C7 ---- *)
\* C7: with fewer than 7 draws plot_rhat_diagnostics does not fail in az.rhat and
\* evaluates no window on an empty set of draws.
C7_NoEmptyWindow ==
    \A p \in Procs :
        ( /\ HasResources(p) /\ Resources(p).n_steps < n_step_group
          /\ "plot_rhat_diagnostics" \in Executed(p) )
        => /\ \A sl \in log[p].rhat_calls : sl.draws >= 1
           /\ \A i \in 1..Len(log[p].raised) : log[p].raised[i].error # "RhatError"

(* ---- C8 ---- *)
Ones(a, j) == Cardinality({ i \in 1..Len(a) : a[i][j] = 1 })

\* C8 as stated, the arrays laid out loop x chain (axis 0 the loops): a curve has one
\* value per index of axis 0, the mean over axis 1 at that index.
C8_MeanPerLoopOfLoopByChain ==
    \A p \in Procs :
        (HasResources(p) /\ diag[p].mean_local_accs # <<>>) =>
            \A c \in { << Resources(p).local_accs, diag[p].mean_local_accs[1] >>,
                       << Resources(p).global_accs, diag[p].mean_global_accs[1] >> } :
                /\ Len(c[2]) = Len(c[1])
                /\ \A l \in 1..Len(c[1]) :
                     c[2][l].num * Len(c[1][l]) = RowSum(c[1][l], Len(c[1][l])) * c[2][l].den

\* C8 amended: a curve has one value per index of axis 1, the mean over axis 0 at
\* that index (for 0/1 entries: the accepted count over the extent of axis 0).
C8_MeanOverAxis0 ==
    \A p \in Procs :
        (HasResources(p) /\ diag[p].mean_local_accs # <<>>) =>
            \A c \in { << Resources(p).local_accs, diag[p].mean_local_accs[1] >>,
                       << Resources(p).global_accs, diag[p].mean_global_accs[1] >> } :
                /\ Len(c[2]) = Len(c[1][1])
                /\ \A j \in 1..Len(c[2]) :
                     /\ c[2][j].den = Len(c[1])
                     /\ c[2][j].num = Ones(c[1], j)

C8_Witness ==
    /\ HasResources(1) /\ diag[1].mean_local_accs # <<>>
    /\ Len(Resources(1).local_accs) = 2 /\ Len(Resources(1).local_accs[1]) = 1
    /\ diag[1].mean_local_accs[1] = << [num |-> 1, den |-> 2] >>

(* ---- C9 ---- *)
\* C9: every hyperparameter of the bundle is the user's parameter of the same name.
C9_FaithfulTranslation ==
    \A p \in Procs :
        sampler[p] # <<>> =>
            LET b == sampler[p][1].bundle
                u == params[p]
            IN  /\ b.n_chains = u.n_chains /\ b.n_dims = u.n_dims
                /\ b.n_local_steps = u.n_local_steps /\ b.n_global_steps = u.n_global_steps
                /\ b.n_training_loops = u.n_training_loops
                /\ b.n_production_loops = u.n_production_loops
                /\ b.n_epochs = u.n_epochs
                /\ b.mala_step_size = u.mala_step_size
                /\ b.rq_spline_hidden_units = << u.rq_spline_hidden_units, u.rq_spline_hidden_units >>
                /\ b.rq_spline_n_bins = u.rq_spline_n_bins
                /\ b.rq_spline_n_layers = u.rq_spline_n_layers
                /\ b.learning_rate = u.learning_rate /\ b.batch_size = u.batch_size
                /\ b.n_max_examples = u.n_max_examples

(* ---- C10 ---- *)
Owns(p) == params[p].outdir # <<>>
VersionOf(name) == IntOf(ReMatch(DefaultPrefix, name))

\* C10: constructions on one base directory, in any interleaving: no two of them
\* hold the same output directory; a construction takes a directory only by
\* creating it, under a name no entry had, and removes or replaces no entry; a
\* construction that scans the base after others took their directories is given a
\* larger version number than theirs.
C10_FreshOutdirs ==
    /\ [](\A p \in Procs, q \in Procs :
             (p # q /\ Owns(p) /\ Owns(q)) => params[p].outdir # params[q].outdir)
    /\ [][ \A p \in Procs :
             /\ (params'[p].outdir # params[p].outdir) =>
                   /\ params'[p].outdir \notin EntryNames(entries)
                   /\ entries' = entries \cup { [name |-> params'[p].outdir, kind |-> "dir"] }
             /\ entries \subseteq entries'
             /\ (pc[p] = "listdir" /\ pc'[p] = "makedirs") =>
                   \A q \in Procs :
                       Owns(q) => VersionOf(unique_outdir'[p]) > VersionOf(params[q].outdir)
         ]_vars

C10_Witness ==
    /\ pc[1] = "run_experiment" /\ pc[2] = "run_experiment"
    /\ VersionOf(params[1].outdir) > VersionOf(params[2].outdir)
    /\ Cardinality(entries) > 2

====
